---- MODULE Spec2Model ----
(***************************************************************************)
(* A model of data_cleaning.py: the column normaliser, the three field     *)
(* parsers (fatalities, location, time) and the clean_dataset pass over a  *)
(* table.                                                                  *)
(*                                                                         *)
(* Text is a sequence of one-character strings, so that substring tests,   *)
(* trimming, lower-casing and the regular expressions of the source are    *)
(* computed character by character.  A cell or a parser result is a tagged *)
(* record: Null (None / NaN / NaT), Str(s), Num(n), Date(y, m, d).         *)
(***************************************************************************)
EXTENDS Integers, Sequences, FiniteSets, TLC

VARIABLES
    pc,     \* control point of the operation being run
    text,   \* argument of the parser / normaliser being called
    out,    \* what the call returned (or that it raised)
    raw,    \* the table handed to clean_dataset (sequence of columns)
    df,     \* the table clean_dataset is working on
    first,  \* the table returned by the first clean_dataset pass
    pass    \* 1 during the first pass, 2 while cleaning its output again

vars == <<pc, text, out, raw, df, first, pass>>

(***************************************************************************)
(* Values                                                                  *)
(***************************************************************************)
Null == [t |-> "null"]
Str(s) == [t |-> "str", s |-> s]
Num(n) == [t |-> "num", n |-> n]
Returned(v) == [raised |-> FALSE, val |-> v]
Raised(e) == [raised |-> TRUE, exc |-> e]
NotCalled == [raised |-> FALSE, val |-> <<>>]

(***************************************************************************)
(* Characters and the str methods the source uses                          *)
(***************************************************************************)
DigitChars == <<"0", "1", "2", "3", "4", "5", "6", "7", "8", "9">>
UpperChars == <<"A", "B", "C", "D", "E", "F", "G", "H", "I", "J", "K", "L", "M",
                "N", "O", "P", "Q", "R", "S", "T", "U", "V", "W", "X", "Y", "Z">>
LowerChars == <<"a", "b", "c", "d", "e", "f", "g", "h", "i", "j", "k", "l", "m",
                "n", "o", "p", "q", "r", "s", "t", "u", "v", "w", "x", "y", "z">>

Range(f) == {f[i] : i \in DOMAIN f}

Digits == Range(DigitChars)
Alnums == Range(DigitChars) \cup Range(UpperChars) \cup Range(LowerChars)
Spaces == {" ", "\t"}

IsDigit(c) == c \in Digits
IsSpace(c) == c \in Spaces
IsAlnum(c) == c \in Alnums

DigitValue == [c \in Digits |-> (CHOOSE k \in 1..10 : DigitChars[k] = c) - 1]
DigitVal(c) == DigitValue[c]

ToLower == [c \in Range(UpperChars) |-> LowerChars[CHOOSE k \in 1..26 : UpperChars[k] = c]]
LowerChar(c) == IF c \in DOMAIN ToLower THEN ToLower[c] ELSE c

Lower(s) == [i \in 1..Len(s) |-> LowerChar(s[i])]

\* str.strip(): drop leading and trailing whitespace
Strip(s) ==
    LET keep == {i \in 1..Len(s) : ~IsSpace(s[i])}
    IN IF keep = {} THEN <<>>
       ELSE LET lo == CHOOSE i \in keep : \A j \in keep : i <= j
                hi == CHOOSE i \in keep : \A j \in keep : j <= i
            IN SubSeq(s, lo, hi)

StartsWith(s, p) == Len(p) <= Len(s) /\ SubSeq(s, 1, Len(p)) = p

\* `sub in s`
Contains(s, sub) ==
    \E i \in 1..(Len(s) - Len(sub) + 1) : SubSeq(s, i, i + Len(sub) - 1) = sub

\* int() of a run of decimal digits
RECURSIVE ToInt(_)
ToInt(ds) ==
    IF ds = <<>> THEN 0
    ELSE 10 * ToInt(SubSeq(ds, 1, Len(ds) - 1)) + DigitVal(ds[Len(ds)])

\* decimal digits of a natural number
RECURSIVE ToDec(_)
ToDec(n) ==
    IF n < 10 THEN <<DigitChars[n + 1]>>
    ELSE ToDec(n \div 10) \o <<DigitChars[(n % 10) + 1]>>

\* f"{n:02d}"
Fmt02(n) == IF n < 10 THEN <<"0">> \o ToDec(n) ELSE ToDec(n)

\* every sequence over `chars` of length at most n
SeqsUpTo(chars, n) == UNION {[1..k -> chars] : k \in 0..n}

(***************************************************************************)
(* String literals of the source, spelled out character by character       *)
(***************************************************************************)
\* canonical column names (normalize_columns)
s_aboard == <<"a", "b", "o", "a", "r", "d">>
s_aircraft_type == <<"a", "i", "r", "c", "r", "a", "f", "t", "_", "t", "y", "p", "e">>
s_cn_ln == <<"c", "n", "_", "l", "n">>
s_date == <<"d", "a", "t", "e">>
s_detail_url == <<"d", "e", "t", "a", "i", "l", "_", "u", "r", "l">>
s_fatalities == <<"f", "a", "t", "a", "l", "i", "t", "i", "e", "s">>
s_flight_no == <<"f", "l", "i", "g", "h", "t", "_", "n", "o">>
s_ground_fatalities == <<"g", "r", "o", "u", "n", "d", "_", "f", "a", "t", "a", "l", "i", "t", "i", "e", "s">>
s_location == <<"l", "o", "c", "a", "t", "i", "o", "n">>
s_operator == <<"o", "p", "e", "r", "a", "t", "o", "r">>
s_registration == <<"r", "e", "g", "i", "s", "t", "r", "a", "t", "i", "o", "n">>
s_route == <<"r", "o", "u", "t", "e">>
s_summary == <<"s", "u", "m", "m", "a", "r", "y">>
s_time == <<"t", "i", "m", "e">>
s_year_page_url == <<"y", "e", "a", "r", "_", "p", "a", "g", "e", "_", "u", "r", "l">>

\* substrings and prefixes the rules test for
s_type == <<"t", "y", "p", "e">>
s_cn == <<"c", "n">>
s_fatalit == <<"f", "a", "t", "a", "l", "i", "t">>
s_flight == <<"f", "l", "i", "g", "h", "t">>
s_ground == <<"g", "r", "o", "u", "n", "d">>
s_registr == <<"r", "e", "g", "i", "s", "t", "r">>

\* derived column names (clean_dataset and the parse_*_col steps)
s_date_parsed == <<"d", "a", "t", "e", "_", "p", "a", "r", "s", "e", "d">>
s_time_raw == <<"t", "i", "m", "e", "_", "r", "a", "w">>
s_time_hhmm == <<"t", "i", "m", "e", "_", "h", "h", "m", "m">>
s_fatalities_total == <<"f", "a", "t", "a", "l", "i", "t", "i", "e", "s", "_", "t", "o", "t", "a", "l">>
s_fatalities_passengers == <<"f", "a", "t", "a", "l", "i", "t", "i", "e", "s", "_", "p", "a", "s", "s", "e", "n", "g", "e", "r", "s">>
s_fatalities_crew == <<"f", "a", "t", "a", "l", "i", "t", "i", "e", "s", "_", "c", "r", "e", "w">>
s_location_city == <<"l", "o", "c", "a", "t", "i", "o", "n", "_", "c", "i", "t", "y">>
s_location_state == <<"l", "o", "c", "a", "t", "i", "o", "n", "_", "s", "t", "a", "t", "e">>
s_location_country == <<"l", "o", "c", "a", "t", "i", "o", "n", "_", "c", "o", "u", "n", "t", "r", "y">>

\* labels of the fatalities text
s_passengers_label == <<"p", "a", "s", "s", "e", "n", "g", "e", "r", "s", ":">>
s_crew_label == <<"c", "r", "e", "w", ":">>

\* country names of split_location
s_Germany == <<"G", "e", "r", "m", "a", "n", "y">>
s_France == <<"F", "r", "a", "n", "c", "e">>
s_Belgium == <<"B", "e", "l", "g", "i", "u", "m">>
s_Italy == <<"I", "t", "a", "l", "y">>
s_England == <<"E", "n", "g", "l", "a", "n", "d">>

(***************************************************************************)
(* parse_time_col._parse_time                                              *)
(***************************************************************************)
MaxTimeLen == 5
TimeChars == {"0", "2", "3", "4", "5", "6", "9", ":", "?"}

\* re.sub(r"\D", "", s)
RemoveNonDigits(s) == SelectSeq(s, IsDigit)

\* pad to four digits, or keep the last four
FourDigits(d) ==
    IF Len(d) = 3 THEN <<"0">> \o d
    ELSE IF Len(d) > 4 THEN SubSeq(d, Len(d) - 3, Len(d))
    ELSE d

\* a planted slip for HourMinuteOk: hour 24 let through
HourMinuteOk_Off(hh, mm) == ~(hh > 24 \/ mm > 59)

\* `if hh > 23 or mm > 59: return None`
HourMinuteOk(hh, mm) == ~(hh > 23 \/ mm > 59)

_parse_time(t) ==
    IF t = Null THEN Null
    ELSE LET s == Strip(t.s) IN
         IF s = <<"?">> \/ s = <<>> THEN Null
         ELSE LET d == RemoveNonDigits(s) IN
              IF d = <<>> THEN Null
              ELSE IF Len(d) <= 2 THEN Null
              ELSE LET s4 == FourDigits(d)
                       hh == ToInt(SubSeq(s4, 1, 2))
                       mm == ToInt(SubSeq(s4, 3, 4))
                   IN IF ~HourMinuteOk(hh, mm) THEN Null
                      ELSE Str(Fmt02(hh) \o <<":">> \o Fmt02(mm))

TimeInputs == {Null} \cup {Str(s) : s \in SeqsUpTo(TimeChars, MaxTimeLen)}

InitTime ==
    /\ pc = "call"
    /\ text \in TimeInputs
    /\ out = NotCalled
    /\ raw = <<>> /\ df = <<>> /\ first = <<>> /\ pass = 0

CallParseTime ==
    /\ pc = "call"
    /\ out' = Returned(_parse_time(text))
    /\ pc' = "returned"
    /\ UNCHANGED <<text, raw, df, first, pass>>

NextTime == CallParseTime

SpecTime == InitTime /\ [][NextTime]_vars

\* the digits of a text, and the k-th of its last four (a missing one is "0")
DigitsOf(s) == [k \in 1..Cardinality({i \in 1..Len(s) : IsDigit(s[i])}) |->
                  s[CHOOSE i \in 1..Len(s) :
                      /\ IsDigit(s[i])
                      /\ Cardinality({j \in 1..i : IsDigit(s[j])}) = k]]
LastFour(d, k) == IF Len(d) - 4 + k >= 1 THEN d[Len(d) - 4 + k] ELSE "0"
TwoDigitVal(a, b) == 10 * DigitVal(a) + DigitVal(b)

\* C8: time_hhmm is null for a missing, empty or "?" value and for one with at
\* most two digits; otherwise, with the digits left-padded to four or cut to the
\* last four, it is null when HH > 23 or MM > 59 and "HH:MM" otherwise, so every
\* non-null result has 00 <= HH <= 23 and 00 <= MM <= 59.
C8_TimeRule ==
    pc = "returned" =>
        LET r == out.val IN
        /\ ~out.raised
        /\ IF text = Null THEN r = Null
           ELSE LET d == DigitsOf(text.s)
                    HH == TwoDigitVal(LastFour(d, 1), LastFour(d, 2))
                    MM == TwoDigitVal(LastFour(d, 3), LastFour(d, 4))
                IN IF text.s = <<>> \/ text.s = <<"?">> \/ Len(d) <= 2 THEN r = Null
                   ELSE IF HH > 23 \/ MM > 59 THEN r = Null
                   ELSE r = Str(<<LastFour(d, 1), LastFour(d, 2), ":",
                                  LastFour(d, 3), LastFour(d, 4)>>)
        /\ r # Null =>
              /\ Len(r.s) = 5 /\ r.s[3] = ":"
              /\ TwoDigitVal(r.s[1], r.s[2]) \in 0..23
              /\ TwoDigitVal(r.s[4], r.s[5]) \in 0..59

\* a five-digit time whose last four digits are the latest valid time
C8_Witness ==
    /\ pc = "returned"
    /\ text = Str(<<"9", "2", "3", "5", "9">>)
    /\ out = Returned(Str(<<"2", "3", ":", "5", "9">>))

(***************************************************************************)
(* normalize_columns: the name one header is given                         *)
(***************************************************************************)
\* str.strip("_")
StripUnderscores(s) ==
    LET keep == {i \in 1..Len(s) : s[i] # "_"}
    IN IF keep = {} THEN <<>>
       ELSE LET lo == CHOOSE i \in keep : \A j \in keep : i <= j
                hi == CHOOSE i \in keep : \A j \in keep : j <= i
            IN SubSeq(s, lo, hi)

\* re.sub(r"[^0-9a-zA-Z]+", "_", s): every run of other characters becomes one "_"
RECURSIVE SubNonAlnum(_, _)
SubNonAlnum(s, i) ==
    IF i > Len(s) THEN <<>>
    ELSE IF IsAlnum(s[i]) THEN <<s[i]>> \o SubNonAlnum(s, i + 1)
    ELSE IF i > 1 /\ ~IsAlnum(s[i - 1]) THEN SubNonAlnum(s, i + 1)
    ELSE <<"_">> \o SubNonAlnum(s, i + 1)

\* the else branch: generic snake_case, `tmp or col_clean`
FallbackName(col_clean) ==
    LET tmp == StripUnderscores(SubNonAlnum(col_clean, 1))
    IN IF tmp # <<>> THEN tmp ELSE col_clean

NumRules == 15

\* the condition of the k-th branch of the if / elif chain
RulePredicate(k, c) ==
    CASE k = 1 -> StartsWith(c, s_aboard)
      [] k = 2 -> Contains(c, s_type)
      [] k = 3 -> StartsWith(c, s_cn)
      [] k = 4 -> c = s_date
      [] k = 5 -> c = s_detail_url
      [] k = 6 -> Contains(c, s_fatalit)
      [] k = 7 -> Contains(c, s_flight)
      [] k = 8 -> c \in {s_ground, s_ground_fatalities}
      [] k = 9 -> c = s_location
      [] k = 10 -> Contains(c, s_operator)
      [] k = 11 -> Contains(c, s_registr)
      [] k = 12 -> c = s_route
      [] k = 13 -> c = s_summary
      [] k = 14 -> c = s_time
      [] k = 15 -> Contains(c, s_year_page_url)

\* the name the k-th branch assigns
RuleName(k) ==
    <<s_aboard, s_aircraft_type, s_cn_ln, s_date, s_detail_url, s_fatalities,
      s_flight_no, s_ground_fatalities, s_location, s_operator, s_registration,
      s_route, s_summary, s_time, s_year_page_url>>[k]

\* a planted slip for ColumnName: the "flight" test moved in front of the "type" test
ColumnName_FlightFirst(col) ==
    LET c == Lower(Strip(col)) IN
    IF RulePredicate(1, c) THEN RuleName(1)
    ELSE IF RulePredicate(7, c) THEN RuleName(7)
    ELSE IF RulePredicate(2, c) THEN RuleName(2)
    ELSE IF RulePredicate(3, c) THEN RuleName(3)
    ELSE IF RulePredicate(4, c) THEN RuleName(4)
    ELSE IF RulePredicate(5, c) THEN RuleName(5)
    ELSE IF RulePredicate(6, c) THEN RuleName(6)
    ELSE IF RulePredicate(8, c) THEN RuleName(8)
    ELSE IF RulePredicate(9, c) THEN RuleName(9)
    ELSE IF RulePredicate(10, c) THEN RuleName(10)
    ELSE IF RulePredicate(11, c) THEN RuleName(11)
    ELSE IF RulePredicate(12, c) THEN RuleName(12)
    ELSE IF RulePredicate(13, c) THEN RuleName(13)
    ELSE IF RulePredicate(14, c) THEN RuleName(14)
    ELSE IF RulePredicate(15, c) THEN RuleName(15)
    ELSE FallbackName(c)

\* the body of the loop over df.columns: col_map[col] for the stripped header col
ColumnName(col) ==
    LET c == Lower(Strip(col)) IN
    IF RulePredicate(1, c) THEN RuleName(1)
    ELSE IF RulePredicate(2, c) THEN RuleName(2)
    ELSE IF RulePredicate(3, c) THEN RuleName(3)
    ELSE IF RulePredicate(4, c) THEN RuleName(4)
    ELSE IF RulePredicate(5, c) THEN RuleName(5)
    ELSE IF RulePredicate(6, c) THEN RuleName(6)
    ELSE IF RulePredicate(7, c) THEN RuleName(7)
    ELSE IF RulePredicate(8, c) THEN RuleName(8)
    ELSE IF RulePredicate(9, c) THEN RuleName(9)
    ELSE IF RulePredicate(10, c) THEN RuleName(10)
    ELSE IF RulePredicate(11, c) THEN RuleName(11)
    ELSE IF RulePredicate(12, c) THEN RuleName(12)
    ELSE IF RulePredicate(13, c) THEN RuleName(13)
    ELSE IF RulePredicate(14, c) THEN RuleName(14)
    ELSE IF RulePredicate(15, c) THEN RuleName(15)
    ELSE FallbackName(c)

\* the name a raw header ends up with: stripped by the first rename, mapped by the second
NormalizedName(header) == ColumnName(Strip(header))

\* str.upper(), to write a header in capitals
ToUpper == [c \in Range(LowerChars) |-> UpperChars[CHOOSE k \in 1..26 : LowerChars[k] = c]]
UpperChar(c) == IF c \in DOMAIN ToUpper THEN ToUpper[c] ELSE c
Upper(s) == [i \in 1..Len(s) |-> UpperChar(s[i])]

RECURSIVE Concat(_)
Concat(ss) == IF ss = <<>> THEN <<>> ELSE Head(ss) \o Concat(Tail(ss))

\* Raw headers: up to MaxHeaderPieces pieces (the words the rules look for, and
\* filler characters) written one after the other, as written or in capitals,
\* with or without a blank in front and behind.
MaxHeaderPieces == 2
HeaderPieces ==
    {s_aboard, s_type, s_cn, s_date, s_detail_url, s_fatalit, s_flight, s_ground,
     s_ground_fatalities, s_location, s_operator, s_registr, s_route, s_summary,
     s_time, s_year_page_url, <<" ">>, <<"_">>, <<".">>, <<"x">>}
HeaderPads == {<<>>, <<" ">>}
HeaderInputs ==
    LET plain == {Concat(ps) : ps \in SeqsUpTo(HeaderPieces, MaxHeaderPieces)}
        cased == plain \cup {Upper(h) : h \in plain}
    IN {Str(l \o h \o r) : l \in HeaderPads, h \in cased, r \in HeaderPads}

InitColumns ==
    /\ pc = "call"
    /\ text \in HeaderInputs
    /\ out = NotCalled
    /\ raw = <<>> /\ df = <<>> /\ first = <<>> /\ pass = 0

CallColumnName ==
    /\ pc = "call"
    /\ out' = Returned(Str(NormalizedName(text.s)))
    /\ pc' = "returned"
    /\ UNCHANGED <<text, raw, df, first, pass>>

NextColumns == CallColumnName

SpecColumns == InitColumns /\ [][NextColumns]_vars

\* the rules whose predicate holds on the trimmed, lower-cased header
MatchingRules(header) == {k \in 1..NumRules : RulePredicate(k, Lower(Strip(header)))}

\* C4 (its instance for rule 8, "equals ground or ground_fatalities"): a header
\* whose trimmed, lower-cased form satisfies the rule's predicate is named
\* ground_fatalities.
C4_GroundRuleNamesColumn ==
    (pc = "returned" /\ 8 \in MatchingRules(text.s)) =>
        out = Returned(Str(s_ground_fatalities))

\* C9: the name assigned is that of the lowest-numbered rule whose predicate
\* holds on the trimmed, lower-cased header, and the sanitized fallback name is
\* used only when no rule's predicate holds.
C9_FirstMatchWins ==
    pc = "returned" =>
        LET K == MatchingRules(text.s) IN
        /\ ~out.raised
        /\ K # {} =>
              out.val = Str(RuleName(CHOOSE k \in K : \A j \in K : k <= j))
        /\ K = {} => out.val = Str(FallbackName(Lower(Strip(text.s))))

\* a header in capitals satisfying both "contains type" and "contains flight"
C9_Witness ==
    /\ pc = "returned"
    /\ text = Str(<<" ">> \o Upper(s_flight \o s_type) \o <<" ">>)
    /\ out = Returned(Str(s_aircraft_type))

(***************************************************************************)
(* parse_fatalities                                                        *)
(***************************************************************************)
\* the end of the longest run of characters of `class` that starts at i
RunEnd(s, i, class) ==
    CHOOSE e \in i..Len(s) :
        /\ \A j \in i..e : s[j] \in class
        /\ e = Len(s) \/ s[e + 1] \notin class

\* re.search(r"(\d+)", s): the first run of digits, <<>> when there is no digit
FirstDigitRun(s) ==
    LET at == {i \in 1..Len(s) : IsDigit(s[i])}
    IN IF at = {} THEN <<>>
       ELSE LET i == CHOOSE i \in at : \A j \in at : i <= j
            IN SubSeq(s, i, RunEnd(s, i, Digits))

CountChars == Digits \cup {"?"}

\* the first position from i on that holds no whitespace (Len(s) + 1 if none)
SkipSpaces(s, i) ==
    CHOOSE j \in i..(Len(s) + 1) :
        /\ \A k \in i..(j - 1) : IsSpace(s[k])
        /\ j = Len(s) + 1 \/ ~IsSpace(s[j])

\* where label\s*([0-9?]+) matches, ignoring case: the positions of the label
\* that are followed, after any whitespace, by a digit or "?"
LabelMatches(s, label) ==
    {i \in 1..(Len(s) - Len(label) + 1) :
        /\ Lower(SubSeq(s, i, i + Len(label) - 1)) = label
        /\ LET j == SkipSpaces(s, i + Len(label))
           IN j <= Len(s) /\ s[j] \in CountChars}

\* group(1) of re.search(label + r"\s*([0-9?]+)", s, re.IGNORECASE), <<>> when
\* there is no match
LabelGroup(s, label) ==
    LET at == LabelMatches(s, label)
    IN IF at = {} THEN <<>>
       ELSE LET i == CHOOSE i \in at : \A k \in at : i <= k
                j == SkipSpaces(s, i + Len(label))
            IN SubSeq(s, j, RunEnd(s, j, CountChars))

\* int(g) raises ValueError on a group that holds a "?"
IntRaises(g) == \E i \in 1..Len(g) : ~IsDigit(g[i])

\* the value of pax / crew for group g when int(g) does not raise
CountOf(g) == IF g = <<>> \/ g = <<"?">> THEN Null ELSE Num(ToInt(g))

parse_fatalities(x) ==
    IF x = Null THEN Returned(<<Null, Null, Null>>)
    ELSE LET s == x.s
             m_total == FirstDigitRun(s)
             total == IF m_total # <<>> THEN Num(ToInt(m_total)) ELSE Null
             g_pax == LabelGroup(s, s_passengers_label)
             g_crew == LabelGroup(s, s_crew_label)
         IN IF g_pax # <<>> /\ g_pax # <<"?">> /\ IntRaises(g_pax)
            THEN Raised("ValueError")
            ELSE IF g_crew # <<>> /\ g_crew # <<"?">> /\ IntRaises(g_crew)
            THEN Raised("ValueError")
            ELSE Returned(<<total, CountOf(g_pax), CountOf(g_crew)>>)

\* Fatalities texts: up to MaxFatalityPieces pieces written one after the other.
MaxFatalityPieces == 5
FatalityPieces ==
    {s_passengers_label, <<"C">> \o Tail(s_crew_label), <<"1">>, <<"0">>, <<"?">>, <<" ">>}
FatalityInputs ==
    {Null} \cup {Str(Concat(ps)) : ps \in SeqsUpTo(FatalityPieces, MaxFatalityPieces)}

InitFatalities ==
    /\ pc = "call"
    /\ text \in FatalityInputs
    /\ out = NotCalled
    /\ raw = <<>> /\ df = <<>> /\ first = <<>> /\ pass = 0

CallParseFatalities ==
    /\ pc = "call"
    /\ out' = parse_fatalities(text)
    /\ pc' = "returned"
    /\ UNCHANGED <<text, raw, df, first, pass>>

NextFatalities == CallParseFatalities

SpecFatalities == InitFatalities /\ [][NextFatalities]_vars

IsCount(v) == v = Null \/ (v.t = "num" /\ v.n >= 0)

\* C1: parse_fatalities never raises; for every fatalities text it returns a
\* (total, passengers, crew) triple whose components are counts or null.
C1_NeverRaises ==
    pc = "returned" =>
        /\ ~out.raised
        /\ Len(out.val) = 3
        /\ \A k \in 1..3 : IsCount(out.val[k])

(***************************************************************************)
(* split_location                                                          *)
(***************************************************************************)
\* s.split(","): the pieces between the commas, empty ones included
RECURSIVE Split(_)
Split(s) ==
    LET at == {i \in 1..Len(s) : s[i] = ","}
    IN IF at = {} THEN <<s>>
       ELSE LET i == CHOOSE i \in at : \A j \in at : i <= j
            IN <<SubSeq(s, 1, i - 1)>> \o Split(SubSeq(s, i + 1, Len(s)))

\* the list in line 118 and the set in line 129
CountryNames == {s_Germany, s_France, s_Belgium, s_Italy, s_England}
known_countries == {s_England, s_Germany, s_France, s_Belgium, s_Italy}

\* any(ctry in s for ctry in [...])
NamesACountry(s) == \E ctry \in CountryNames : Contains(s, ctry)

\* [p.strip() for p in s.split(",") if p.strip()]
NonEmptyParts(s) ==
    LET pieces == Split(s)
        stripped == [i \in 1..Len(pieces) |-> Strip(pieces[i])]
    IN SelectSeq(stripped, LAMBDA p : p # <<>>)

\* a planted slip for LastPartIsCountry: a substring test where the source tests membership
LastPartIsCountry_Substring(last) == NamesACountry(last)

\* `last in known_countries`
LastPartIsCountry(last) == last \in known_countries

split_location(loc) ==
    IF loc = Null THEN Returned(<<Null, Null, Null>>)
    ELSE LET s == Strip(loc.s) IN
         IF ~Contains(s, <<",">>)
         THEN IF NamesACountry(s)
              THEN Returned(<<Null, Null, Str(s)>>)
              ELSE Returned(<<Str(s), Null, Null>>)
         ELSE LET parts == NonEmptyParts(s) IN
              IF Len(parts) = 1 THEN Returned(<<Str(parts[1]), Null, Null>>)
              ELSE IF Len(parts) = 2
              THEN IF LastPartIsCountry(parts[2])
                   THEN Returned(<<Str(parts[1]), Null, Str(parts[2])>>)
                   ELSE Returned(<<Str(parts[1]), Str(parts[2]), Null>>)
              ELSE IF Len(parts) = 0 THEN Raised("IndexError")
              ELSE Returned(<<Str(parts[1]), Str(parts[2]), Str(parts[Len(parts)])>>)

\* Location texts: up to MaxLocationParts parts joined by commas.
MaxLocationParts == 4
s_Paris == <<"P", "a", "r", "i", "s">>
LocationParts ==
    CountryNames \cup
    {<<>>, <<" ">>, s_Paris, <<" ">> \o s_Italy \o <<" ">>,
     <<"N", " ">> \o s_Italy, Lower(s_Italy)}

RECURSIVE Join(_)
Join(ps) ==
    IF Len(ps) = 1 THEN Head(ps) ELSE Head(ps) \o <<",">> \o Join(Tail(ps))

LocationInputs ==
    {Null} \cup
    {Str(Join(ps)) : ps \in UNION {[1..k -> LocationParts] : k \in 1..MaxLocationParts}}

InitLocation ==
    /\ pc = "call"
    /\ text \in LocationInputs
    /\ out = NotCalled
    /\ raw = <<>> /\ df = <<>> /\ first = <<>> /\ pass = 0

CallSplitLocation ==
    /\ pc = "call"
    /\ out' = split_location(text)
    /\ pc' = "returned"
    /\ UNCHANGED <<text, raw, df, first, pass>>

NextLocation == CallSplitLocation

SpecLocation == InitLocation /\ [][NextLocation]_vars

\* C2: split_location never raises; for every location text it returns a
\* (city, state, country) triple.
C2_NeverRaises ==
    pc = "returned" => (~out.raised /\ Len(out.val) = 3)

\* C3: each of the three components split_location returns is null or a
\* non-empty string, never the empty string.
C3_NoEmptyString ==
    (pc = "returned" /\ ~out.raised) =>
        \A k \in 1..3 : out.val[k] # Str(<<>>)

\* The comma-separated parts of a text, read off the positions of its commas:
\* a part lies between two neighbouring cuts (a comma or an end of the text).
Cuts(s) == {0, Len(s) + 1} \cup {i \in 1..Len(s) : s[i] = ","}
PartAfter(s, a) ==
    LET b == CHOOSE b \in Cuts(s) : b > a /\ \A c \in Cuts(s) : c > a => b <= c
    IN Strip(SubSeq(s, a + 1, b - 1))
PartStarts(s) == {a \in Cuts(s) \ {Len(s) + 1} : PartAfter(s, a) # <<>>}

\* C10: for a location text with at least one non-empty part: with no comma the
\* trimmed text is the country if it contains one of the five country names and
\* the city otherwise; with a comma and one non-empty part that part is the
\* city; with two, the first is the city and the second is the country only if
\* it equals one of the five names, otherwise the state; with three or more the
\* result is (first, second, last).
C10_LocationRule ==
    (pc = "returned" /\ text # Null) =>
        LET s == text.s
            starts == PartStarts(s)
            n == Cardinality(starts)
            nth(k) == PartAfter(s, CHOOSE a \in starts :
                                       Cardinality({c \in starts : c < a}) = k - 1)
            p1 == nth(1)
            p2 == nth(2)
            five == {s_Germany, s_France, s_Belgium, s_Italy, s_England}
        IN n >= 1 =>
           out = Returned(
             IF Cuts(s) = {0, Len(s) + 1}
             THEN IF \E c \in five : Contains(p1, c) THEN <<Null, Null, Str(p1)>>
                  ELSE <<Str(p1), Null, Null>>
             ELSE IF n = 1 THEN <<Str(p1), Null, Null>>
             ELSE IF n = 2
             THEN IF p2 \in five THEN <<Str(p1), Null, Str(p2)>>
                  ELSE <<Str(p1), Str(p2), Null>>
             ELSE <<Str(p1), Str(p2), Str(nth(n))>>)

\* four parts: the second, padded with blanks, is the state and the last the country
C10_Witness ==
    /\ pc = "returned"
    /\ text = Str(Join(<<s_Paris, <<" ">> \o s_Italy \o <<" ">>,
                         <<"N", " ">> \o s_Italy, s_Germany>>))
    /\ out = Returned(<<Str(s_Paris), Str(s_Italy), Str(s_Germany)>>)

(***************************************************************************)
(* Tables: a DataFrame is a sequence of columns, each a label and one cell *)
(* per row.  pandas keeps two columns apart even when their labels are     *)
(* equal.                                                                  *)
(***************************************************************************)
Date(y, m, d) == [t |-> "date", y |-> y, m |-> m, d |-> d]

HasColumn(d, name) == \E i \in 1..Len(d) : d[i].name = name
ColumnCount(d, name) == Cardinality({i \in 1..Len(d) : d[i].name = name})

\* df[name] when exactly one column carries the label
Column(d, name) == d[CHOOSE i \in 1..Len(d) : d[i].name = name].vals

\* df[name] = values: written over the columns that carry the label, appended
\* as a new last column when none does
SetColumn(d, name, values) ==
    IF HasColumn(d, name)
    THEN [i \in 1..Len(d) |->
            IF d[i].name = name THEN [name |-> name, vals |-> values] ELSE d[i]]
    ELSE Append(d, [name |-> name, vals |-> values])

\* the two df.rename calls of normalize_columns: every label is mapped, no
\* column is dropped or merged
normalize_columns(d) ==
    [i \in 1..Len(d) |-> [name |-> NormalizedName(d[i].name), vals |-> d[i].vals]]

\* pd.to_datetime(..., errors="coerce") on the texts the model feeds it:
\* "YYYY-MM-DD" with a valid month and day is a date, any other text is NaT
DaysIn(y, m) ==
    IF m = 2 THEN (IF (y % 4 = 0 /\ y % 100 # 0) \/ y % 400 = 0 THEN 29 ELSE 28)
    ELSE IF m \in {4, 6, 9, 11} THEN 30 ELSE 31
to_datetime(v) ==
    IF v = Null \/ v.t # "str" THEN v
    ELSE LET s == v.s IN
         IF /\ Len(s) = 10 /\ s[5] = "-" /\ s[8] = "-"
            /\ \A i \in {1, 2, 3, 4, 6, 7, 9, 10} : IsDigit(s[i])
         THEN LET y == ToInt(SubSeq(s, 1, 4))
                  m == ToInt(SubSeq(s, 6, 7))
                  d == ToInt(SubSeq(s, 9, 10))
              IN IF m \in 1..12 /\ d \in 1..DaysIn(y, m) THEN Date(y, m, d) ELSE Null
         ELSE Null

\* pd.to_numeric(..., errors="coerce") on the cells the model feeds it: a number
\* stays, a text of decimal digits is its value, any other text is NaN
to_numeric(v) ==
    IF v = Null \/ v.t = "num" THEN v
    ELSE IF v.t = "str" /\ v.s # <<>> /\ \A i \in 1..Len(v.s) : IsDigit(v.s[i])
    THEN Num(ToInt(v.s))
    ELSE Null

\* The element Series.apply hands over: a text as it is; a number of a numeric
\* column as the str() of an int (int64: no cell is NaN) or of a float (float64)
Element(col, x) ==
    IF x = Null \/ x.t # "num" THEN x
    ELSE IF \E r \in 1..Len(col) : col[r] = Null
    THEN Str(ToDec(x.n) \o <<".", "0">>)
    ELSE Str(ToDec(x.n))

\* what a step of clean_dataset leaves: the table, or an exception
Ok(d) == [raised |-> FALSE, df |-> d]

\* pd.to_datetime on the two-dimensional df["date"] of a repeated label raises
parse_date_col(d) ==
    IF ~HasColumn(d, s_date) THEN Ok(d)
    ELSE IF ColumnCount(d, s_date) > 1 THEN Raised("ValueError")
    ELSE LET col == Column(d, s_date)
         IN Ok(SetColumn(d, s_date_parsed,
                         [r \in 1..Len(col) |-> to_datetime(col[r])]))

\* a planted slip for parse_time_col: the parsed time written over the time column
parse_time_col_InPlace(d) ==
    IF ~HasColumn(d, s_time) THEN Ok(d)
    ELSE IF ColumnCount(d, s_time) > 1 THEN Raised("ValueError")
    ELSE LET col == Column(d, s_time)
         IN Ok(SetColumn(SetColumn(d, s_time_raw, col),
                         s_time, [r \in 1..Len(col) |-> _parse_time(col[r])]))

\* df["time_raw"] = df["time"] raises when df["time"] is two-dimensional
parse_time_col(d) ==
    IF ~HasColumn(d, s_time) THEN Ok(d)
    ELSE IF ColumnCount(d, s_time) > 1 THEN Raised("ValueError")
    ELSE LET col == Column(d, s_time)
         IN Ok(SetColumn(SetColumn(d, s_time_raw, col),
                         s_time_hhmm, [r \in 1..Len(col) |-> _parse_time(col[r])]))

\* the "Fatalities split" block: on a repeated label df["fatalities"].apply
\* hands whole columns to parse_fatalities, whose `if pd.isna(text)` raises
fatalities_split(d) ==
    IF ~HasColumn(d, s_fatalities) THEN Ok(d)
    ELSE IF ColumnCount(d, s_fatalities) > 1 THEN Raised("ValueError")
    ELSE LET col == Column(d, s_fatalities)
             totals == [r \in 1..Len(col) |-> parse_fatalities(Element(col, col[r]))] IN
         IF \E r \in 1..Len(totals) : totals[r].raised THEN Raised("ValueError")
         ELSE LET part(k) == [r \in 1..Len(totals) |-> to_numeric(totals[r].val[k])]
              IN Ok(SetColumn(SetColumn(SetColumn(d,
                        s_fatalities_total, part(1)),
                        s_fatalities_passengers, part(2)),
                        s_fatalities_crew, part(3)))

\* the "Location split" block
location_split(d) ==
    IF ~HasColumn(d, s_location) THEN Ok(d)
    ELSE IF ColumnCount(d, s_location) > 1 THEN Raised("ValueError")
    ELSE LET col == Column(d, s_location)
             loc_split == [r \in 1..Len(col) |-> split_location(col[r])] IN
         IF \E r \in 1..Len(loc_split) : loc_split[r].raised THEN Raised("IndexError")
         ELSE LET part(k) == [r \in 1..Len(loc_split) |-> loc_split[r].val[k]]
              IN Ok(SetColumn(SetColumn(SetColumn(d,
                        s_location_city, part(1)),
                        s_location_state, part(2)),
                        s_location_country, part(3)))

\* the "Ground fatalities numeric" block: pd.to_numeric rejects a DataFrame
ground_fatalities_numeric(d) ==
    IF ~HasColumn(d, s_ground_fatalities) THEN Ok(d)
    ELSE IF ColumnCount(d, s_ground_fatalities) > 1 THEN Raised("TypeError")
    ELSE LET col == Column(d, s_ground_fatalities)
         IN Ok(SetColumn(d, s_ground_fatalities,
                         [r \in 1..Len(col) |-> to_numeric(col[r])]))

(***************************************************************************)
(* clean_dataset, one step of its body at a time, over the tables Init     *)
(* draws; CleanAgain hands the table it returned to a second pass.         *)
(***************************************************************************)
MaxColumns == 2
MaxRows == 2

Capitalize(s) == <<UpperChar(Head(s))>> \o Tail(s)

\* the raw headers a table may have, in the order of the file
RawHeaders ==
    <<Capitalize(s_date), Capitalize(s_time), Capitalize(s_fatalities),
      Capitalize(s_ground), s_ground_fatalities, Capitalize(s_location),
      s_time_raw, Capitalize(s_operator)>>

date_good == <<"1", "9", "5", "0", "-", "0", "1", "-", "0", "2">>
fatalities_good == <<"1", " ", " ", " ", " ", "(", "p", "a", "s", "s", "e",
    "n", "g", "e", "r", "s", ":", "1", " ", " ", "c", "r", "e", "w", ":",
    "0", ")">>
fatalities_bad == <<"2", "0", " ", "(", "p", "a", "s", "s", "e", "n", "g",
    "e", "r", "s", ":", "1", "?", " ", "c", "r", "e", "w", ":", "?", ")">>
location_good == <<"N", "e", "a", "r", " ", "P", "a", "r", "i", "s", ",",
    " ", "F", "r", "a", "n", "c", "e">>

\* the two values a cell of a column may hold, by what the column is
CellChoices(header) ==
    LET name == NormalizedName(header) IN
    IF name = s_date THEN <<Str(date_good), Str(<<"?">>)>>
    ELSE IF name = s_time THEN <<Str(<<"7", "0", "0">>), Null>>
    ELSE IF name = s_fatalities THEN <<Str(fatalities_good), Str(fatalities_bad)>>
    ELSE IF name = s_location THEN <<Str(location_good), Str(<<",">>)>>
    ELSE IF name = s_ground_fatalities THEN <<Str(<<"3">>), Str(<<"?">>)>>
    ELSE <<Str(<<"x">>), Null>>

\* the members of a set of header numbers, in increasing order
InOrder(S) ==
    [k \in 1..Cardinality(S) |->
        CHOOSE i \in S : Cardinality({j \in S : j < i}) = k - 1]

Init ==
    /\ \E S \in SUBSET (1..Len(RawHeaders)), n \in 1..MaxRows :
         /\ Cardinality(S) \in 1..MaxColumns
         /\ \E pick \in [S -> [1..n -> 1..2]] :
              raw = [k \in 1..Cardinality(S) |->
                       LET i == InOrder(S)[k]
                       IN [name |-> RawHeaders[i],
                           vals |-> [r \in 1..n |-> CellChoices(RawHeaders[i])[pick[i][r]]]]]
    /\ df = raw
    /\ first = <<>>
    /\ pass = 1
    /\ pc = "normalize_columns"
    /\ text = Null
    /\ out = NotCalled

\* one step of the body: the table the step leaves and the next step, or the
\* exception that ends the call
Step(result, next) ==
    /\ IF result.raised
       THEN pc' = "raised" /\ out' = result /\ df' = df
       ELSE pc' = next /\ out' = out /\ df' = result.df
    /\ UNCHANGED <<text, raw, first, pass>>

NormalizeColumns ==
    /\ pc = "normalize_columns"
    /\ Step(Ok(normalize_columns(df)), "parse_date_col")

ParseDateCol ==
    /\ pc = "parse_date_col"
    /\ Step(parse_date_col(df), "parse_time_col")

ParseTimeCol ==
    /\ pc = "parse_time_col"
    /\ Step(parse_time_col(df), "fatalities_split")

FatalitiesSplit ==
    /\ pc = "fatalities_split"
    /\ Step(fatalities_split(df), "location_split")

LocationSplit ==
    /\ pc = "location_split"
    /\ Step(location_split(df), "ground_fatalities_numeric")

GroundFatalitiesNumeric ==
    /\ pc = "ground_fatalities_numeric"
    /\ Step(ground_fatalities_numeric(df), "done")

\* clean_dataset(clean_dataset(df)): the returned table is cleaned again
CleanAgain ==
    /\ pc = "done" /\ pass = 1
    /\ first' = df /\ raw' = df /\ pass' = 2
    /\ pc' = "normalize_columns"
    /\ UNCHANGED <<text, out, df>>

Next ==
    \/ NormalizeColumns
    \/ ParseDateCol
    \/ ParseTimeCol
    \/ FatalitiesSplit
    \/ LocationSplit
    \/ GroundFatalitiesNumeric
    \/ CleanAgain

Spec == Init /\ [][Next]_vars

\* the columns the steps of clean_dataset write besides ground_fatalities
DerivedNames ==
    {s_date_parsed, s_time_raw, s_time_hhmm, s_fatalities_total,
     s_fatalities_passengers, s_fatalities_crew, s_location_city,
     s_location_state, s_location_country}

RowCount(d) == Len(d[1].vals)

\* C5: the table renamed by normalize_columns has pairwise distinct column
\* names (a later column overwrites an earlier one of the same name), and the
\* rest of clean_dataset runs on a table whose headers collided without raising.
C5_DistinctColumnNames ==
    pc # "normalize_columns" =>
        \A i, j \in 1..Len(df) : df[i].name = df[j].name => i = j

\* a raw value and the cell it has become are the same value: equal, or the
\* number a text of digits spells
SameValue(a, b) == a = b \/ (a.t = "str" /\ b.t = "num" /\ to_numeric(a) = b)

\* C6: the returned table has one row per input row, in the same order, and
\* every original column, ground_fatalities included, holds its raw values
\* unchanged; the steps only add derived columns.
C6_RawValuesKept ==
    pc = "done" =>
        /\ Len(df) >= Len(raw)
        /\ \A i \in 1..Len(raw) :
              /\ Len(df[i].vals) = Len(raw[i].vals)
              /\ \A r \in 1..Len(raw[i].vals) : SameValue(raw[i].vals[r], df[i].vals[r])
        /\ \A i \in (Len(raw) + 1)..Len(df) : df[i].name \in DerivedNames

\* C6 as amended: at every point of the pass, hence in the table it returns,
\* there is one row per input row in the same order and every original column
\* holds its raw values, except ground_fatalities, which the last step replaces
\* by its numeric coercion (null where the text is no number), and an original
\* column that bears the name of a derived column; every further column is a
\* derived column.
C6_RawValuesKeptButGround ==
    /\ Len(df) >= Len(raw)
    /\ \A i \in 1..Len(df) : Len(df[i].vals) = RowCount(raw)
    /\ \A i \in 1..Len(raw) :
          \/ df[i].vals = raw[i].vals
          \/ df[i].name \in DerivedNames
          \/ /\ df[i].name = s_ground_fatalities
             /\ pc \in {"done", "raised"}
             /\ df[i].vals = [r \in 1..RowCount(raw) |-> to_numeric(raw[i].vals[r])]
    /\ \A i \in (Len(raw) + 1)..Len(df) : df[i].name \in DerivedNames
    /\ pc = "done" =>
          \A i \in 1..Len(raw) :
              df[i].name = s_ground_fatalities =>
                  df[i].vals = [r \in 1..RowCount(raw) |-> to_numeric(raw[i].vals[r])]

\* a returned two-row table whose ground_fatalities column lost a "?" and
\* which gained derived columns
C6_Witness ==
    /\ pc = "done" /\ pass = 1
    /\ RowCount(raw) = 2
    /\ Len(df) > Len(raw)
    /\ \E i \in 1..Len(raw) :
          /\ df[i].name = s_ground_fatalities
          /\ raw[i].vals = <<Str(<<"3">>), Str(<<"?">>)>>
          /\ df[i].vals = <<Num(3), Null>>

\* C7: cleaning the cleaned table again completes and leaves every derived
\* column of the first pass under its own name with its values unchanged.
C7_SecondPassKeepsDerived ==
    (pass = 2 /\ pc # "normalize_columns") =>
        /\ pc # "raised"
        /\ \A name \in DerivedNames :
              HasColumn(first, name) =>
                  /\ ColumnCount(df, name) = 1
                  /\ Column(df, name) = Column(first, name)

====
